---- MODULE Spec2Model ----
(***************************************************************************)
(* Call-session lifecycle of the chat client: the Chat view (Chat.tsx) and *)
(* the call view it renders (VideoCall.tsx, the WebRTC variant).           *)
(*                                                                         *)
(* Spec    is the application: Chat renders <VideoCall> without a          *)
(*         callStatus prop, so the call view always runs as 'connected'.   *)
(* SpecVC  is the VideoCall component under an arbitrary parent that may   *)
(*         mount it with any props, change them and unmount it.            *)
(* SpecMsg is the messaging of the Chat view (history, send, receive,      *)
(*         unread counters) while no call is placed or received.           *)
(* SpecId  is the pairing of two participants by generateChatId.            *)
(* SpecLis is the Chat view entering and leaving the tree, with the        *)
(*         handlers it and its call view register on the socket.           *)
(* SpecVariant is the call view without a peer connection.                 *)
(* SpecMute is the call view with its mute controls.                       *)
(***************************************************************************)
EXTENDS Integers, Sequences, FiniteSets, TLC

\* ----------------------------------------------------------------- bounds
MaxRuns == 2        \* runs of the VideoCall effect (one per mount / callStatus change)
MaxMounts == 1      \* call views that Chat opens
MaxAudio == 1       \* Audio objects created by callUser events
MaxDuration == 1    \* ticks of the duration interval that are followed
MaxCand == 1        \* distinct ice-candidate events
MaxJobs == 1        \* negotiation handlers in flight at the same time
MaxMsg == 2         \* messages persisted by the server
MaxLen == 3         \* entries of the displayed message sequence
MaxUnread == 2      \* value of an unread counter
MaxFetch == 2       \* history requests in flight at the same time
MaxSend == 1        \* createMessage requests in flight at the same time
MaxIdLen == 2       \* code units of a user id

\* ------------------------------------------------------------ value sets
Null == "null"
Me == "u1"
Peers == {"u2", "u3"}
FirstPeer == "u2"
CallTypes == {"video", "audio"}
Runs == 1..MaxRuns
Cands == 1..MaxCand
VCEvents == {"offer", "answer", "ice-candidate"}
ChatEvents == {"receiveMessage", "callUser", "callAccepted", "callRejected", "callEnded", "callFailed"}
Events == VCEvents \cup ChatEvents
MediaStatus == {"connected", "incoming"}
Texts == {"hi", "yo"}
\* strings are sequences of UTF-16 code units: '1', '_', 'a'
Codes == {49, 95, 97}
Sep == 95
UserIds == UNION {[1..n -> Codes] : n \in 0..MaxIdLen}
NoChatId == <<>>

VARIABLES
  chatMounted,     \* the Chat view is in the tree
  \* Chat state (useState hooks)
  selectedChat, usersLoading, followedUsers, showCall, showCallModal, callType, callModalType,
  currentAudio,
  incomingCallData, \* the `from` of the stored callUser payload, which is all that is read of it
  hCurrentAudio,   \* currentAudio as closed over by the socket handlers of the last Chat effect run
  callReq,         \* callAPI.initiateCall request awaiting its response
  \* ringing Audio objects
  playing, nextAudio,
  \* socket and window
  listeners,       \* number of handlers registered per event name
  sent,            \* socket.emit calls made by the latest step, in order
  alert,           \* alert() shown by the latest step
  \* VideoCall instance
  vcMounted, vcInst, callStatus, isVideoCall, recipientId,
  callDuration, timerOn, peerConnectionRef, localStreamRef,
  nextRun, gum, pcs,
  jobs, offerTimers,
  \* candidates received while a call session was active
  iceSession,
  \* Chat messaging state (useState hooks)
  messages, unreadCounts, lastMessages,
  sound,           \* whether the latest messaging step played the message sound
  \* the message store behind messagesAPI, and its requests in flight
  db, fetches, sending,
  \* the two participants of a conversation: their user ids, and the chatId each one's
  \* Chat computed for the other (NoChatId before it opened the conversation)
  userIds, chatIds,
  \* the call view without a peer connection: localVideoRef.current.srcObject
  srcObject,
  \* the mute controls of the call view: the two flags, and track.enabled of the audio and
  \* the video track of each stream
  isVideoEnabled, isAudioEnabled, trackEnabled

selVars == <<selectedChat, usersLoading, followedUsers>>
callVars == <<showCall, showCallModal, callType, callModalType, incomingCallData>>
audioVars == <<currentAudio, playing, nextAudio>>
vcVars == <<vcMounted, vcInst, callStatus, isVideoCall, recipientId, callDuration, timerOn,
            peerConnectionRef, localStreamRef, nextRun, gum, pcs, listeners>>
jobVars == <<jobs, offerTimers>>
msgVars == <<messages, unreadCounts, lastMessages, sound, db, fetches, sending>>
idVars == <<userIds, chatIds>>
muteVars == <<isVideoEnabled, isAudioEnabled, trackEnabled>>
\* what the call handlers of Chat never touch
restVars == <<chatMounted, msgVars, idVars, srcObject, muteVars>>
vars == <<chatMounted, selVars, callVars, audioVars, hCurrentAudio, callReq, sent, alert, vcVars, jobVars, iceSession,
          msgVars, idVars, srcObject, muteVars>>

\* --------------------------------------------------------------- helpers
\* socket.emit(type, {to, from, callType, offer/answer})
Msg(type, to, from, ct, desc) == [type |-> type, to |-> to, from |-> from, callType |-> ct, desc |-> desc]

NoReq == [to |-> Null, type |-> Null]

NoDesc == [kind |-> "none", by |-> 0]

Emit(type, to) == Msg(type, to, Null, Null, NoDesc)

\* new RTCPeerConnection(configuration)
NewPc == [closed |-> FALSE, sig |-> "stable", local |-> NoDesc, remote |-> NoDesc, cands |-> {}]

NoPc == [closed |-> FALSE, sig |-> "stable", local |-> NoDesc, remote |-> NoDesc, cands |-> {}]

NoGum == [st |-> "none", inst |-> 0]


\* =========================================================== VideoCall
\* const [...] = useState(...) / useRef(null): a VideoCall instance that is not mounted
VCInit ==
  /\ vcMounted = FALSE /\ vcInst = 0
  /\ callStatus = "connected" /\ isVideoCall = FALSE /\ recipientId = Null
  /\ callDuration = 0 /\ timerOn = FALSE
  /\ peerConnectionRef = 0 /\ localStreamRef = 0
  /\ nextRun = 0
  /\ gum = [r \in Runs |-> NoGum]
  /\ pcs = [r \in Runs |-> NoPc]
  /\ listeners = [e \in Events |-> IF e \in ChatEvents THEN 1 ELSE 0]

\* socket.on(e, handler) for the three signaling events
ListenersOn(lis) == [e \in Events |-> IF e \in VCEvents THEN lis[e] + 1 ELSE lis[e]]

\* socket.off(e, handler) for the three signaling events
ListenersOff(lis) == [e \in Events |-> IF e \in VCEvents /\ lis[e] > 0 THEN lis[e] - 1 ELSE lis[e]]

\* a cleanup that forgets to stop the tracks
StopTracksSkipped(g, ref) == g

\* localStreamRef.current.getTracks().forEach(track => track.stop())
StopTracks(g, ref) == IF ref # 0 THEN [g EXCEPT ![ref].st = "stopped"] ELSE g

\* a closed connection: nothing reads its descriptions or candidates any more
ClosedPc == [closed |-> TRUE, sig |-> "closed", local |-> NoDesc, remote |-> NoDesc, cands |-> {}]

\* peerConnectionRef.current.close()
ClosePc(p, ref) == IF ref # 0 THEN [p EXCEPT ![ref] = ClosedPc] ELSE p

\* body of the effect for one run: timer, initializeMedia(), setupPeerConnection(), socket.on
\* (g, p, lis, pcref are the values the cleanup of the previous run, if any, left behind)
VCEffect(status, video, inst, g, p, lis, pcref) ==
  LET r == nextRun + 1 IN
  /\ nextRun < MaxRuns
  /\ nextRun' = r
  /\ timerOn' = (status = "connected")
  /\ IF status \in MediaStatus
       THEN /\ gum' = [g EXCEPT ![r] = [st |-> "pending", inst |-> inst]]
            /\ pcs' = [p EXCEPT ![r] = NewPc]
            /\ peerConnectionRef' = r
       ELSE /\ gum' = g
            /\ pcs' = p
            /\ peerConnectionRef' = pcref
  /\ listeners' = ListenersOn(lis)

\* first render of <VideoCall .../> followed by its effect
\* (lis: the handlers registered on the socket when the effect runs)
VCMountOn(status, video, rid, lis) ==
  /\ ~vcMounted
  /\ vcMounted' = TRUE
  /\ vcInst' = vcInst + 1
  /\ callStatus' = status /\ isVideoCall' = video /\ recipientId' = rid
  /\ callDuration' = 0
  /\ localStreamRef' = 0
  /\ VCEffect(status, video, vcInst + 1, gum, pcs, lis, 0)

VCMount(status, video, rid) == VCMountOn(status, video, rid, listeners)

\* the effect's cleanup when the component is removed from the tree
VCUnmountOn(lis) ==
  /\ vcMounted
  /\ vcMounted' = FALSE
  /\ vcInst' = vcInst
  /\ callStatus' = "connected" /\ isVideoCall' = FALSE /\ recipientId' = Null
  /\ callDuration' = 0 /\ timerOn' = FALSE
  /\ gum' = StopTracks(gum, localStreamRef)
  /\ pcs' = ClosePc(pcs, peerConnectionRef)
  /\ listeners' = ListenersOff(lis)
  /\ peerConnectionRef' = 0 /\ localStreamRef' = 0
  /\ nextRun' = nextRun

VCUnmount == VCUnmountOn(listeners)

\* re-render with new props; deps [callStatus]: cleanup and effect run again only when it changed
VCPropsOn(status, video, rid, lis) ==
  /\ vcMounted
  /\ vcMounted' = TRUE /\ vcInst' = vcInst
  /\ callStatus' = status /\ isVideoCall' = video /\ recipientId' = rid
  /\ callDuration' = callDuration
  /\ localStreamRef' = localStreamRef
  /\ IF status # callStatus
       THEN VCEffect(status, video, vcInst, StopTracks(gum, localStreamRef),
                     ClosePc(pcs, peerConnectionRef), ListenersOff(lis), peerConnectionRef)
       ELSE /\ UNCHANGED <<timerOn, nextRun, gum, pcs, peerConnectionRef>>
            /\ listeners' = lis

VCProps(status, video, rid) == VCPropsOn(status, video, rid, listeners)

\* {showCall && selectedChat && (<VideoCall isVideoCall=... recipientId={selectedChat.id} .../>)}
\* (lis: the handlers registered on the socket once Chat's own effects have run)
ChatRenderVCOn(lis) ==
  LET shown == showCall' /\ selectedChat' # Null IN
  IF shown /\ ~vcMounted
    THEN vcInst < MaxMounts /\ VCMountOn("connected", callType' = "video", selectedChat', lis)
  ELSE IF ~shown /\ vcMounted THEN VCUnmountOn(lis)
  ELSE IF shown THEN VCPropsOn("connected", callType' = "video", selectedChat', lis)
  ELSE /\ UNCHANGED <<vcMounted, vcInst, callStatus, isVideoCall, recipientId, callDuration, timerOn,
                       peerConnectionRef, localStreamRef, nextRun, gum, pcs>>
       /\ listeners' = lis

\* a render in which the [selectedChat, user] effect does not run again
ChatRenderVC == ChatRenderVCOn(listeners)

\* a cleanup that removes no handler
ChatListenersKept(lis) == lis

\* the cleanup of the [selectedChat, user] effect: socket.off(e) without a handler removes
\* every handler of the event
ChatListenersOff(lis) == [e \in Events |-> IF e \in ChatEvents THEN 0 ELSE lis[e]]

\* the body of the effect: socket.on(e, ...) for the six events of Chat
ChatListenersOn(lis) == [e \in Events |-> IF e \in ChatEvents THEN lis[e] + 1 ELSE lis[e]]

\* selectedChat changed: the cleanup of the previous run, then the effect again
ChatEffectRerun(lis) == ChatListenersOn(ChatListenersOff(lis))

\* a session is pending or running
InSession == showCallModal \/ showCall \/ vcMounted

IceKeep == IF showCallModal' \/ showCall' \/ vcMounted' THEN iceSession ELSE {}


\* ================================================================ Chat
\* state after Chat's first render and effects: fetchFollowedUsers() is in flight,
\* the socket handlers are registered, no call is shown
ChatInit ==
  /\ chatMounted = TRUE
  /\ selectedChat = Null /\ usersLoading = TRUE /\ followedUsers = {}
  /\ showCall = FALSE /\ showCallModal = FALSE
  /\ callType = "video" /\ callModalType = "outgoing"
  /\ currentAudio = 0 /\ hCurrentAudio = 0
  /\ incomingCallData = Null
  /\ callReq = NoReq
  /\ playing = {} /\ nextAudio = 0
  /\ sent = <<>> /\ alert = "none"
  /\ iceSession = {}

\* socket.emit('userOnline') / ('joinChat') at the head of the [selectedChat, user] effect
EffectEmits(chat) ==
  IF chat # Null THEN <<Emit("userOnline", Null), Msg("joinChat", Null, Me, Null, NoDesc)>>
  ELSE <<Emit("userOnline", Null)>>

\* currentAudio.pause(); currentAudio.currentTime = 0
Pause(a) == playing \ {a}

\* fetchFollowedUsers resolves: the list is shown and chatUsers[0] is selected
FetchFollowedUsersOk ==
  /\ usersLoading
  /\ usersLoading' = FALSE
  /\ followedUsers' = Peers
  /\ selectedChat' = FirstPeer
  /\ hCurrentAudio' = currentAudio
  /\ sent' = EffectEmits(FirstPeer) /\ alert' = "none"
  /\ UNCHANGED <<chatMounted, callVars, audioVars, callReq, jobVars, idVars, srcObject, muteVars>>
  /\ ChatRenderVCOn(ChatEffectRerun(listeners))
  /\ iceSession' = IceKeep

\* fetchFollowedUsers rejects: catch logs, finally clears the loading flag
FetchFollowedUsersFail ==
  /\ usersLoading
  /\ usersLoading' = FALSE
  /\ sent' = <<>> /\ alert' = "none"
  /\ UNCHANGED <<selectedChat, followedUsers, callVars, audioVars, hCurrentAudio, callReq,
                 vcVars, jobVars, iceSession, restVars>>

\* click on a conversation of the list (not reachable under the full-screen call view)
handleSelectChat(c) ==
  /\ c \in followedUsers /\ c # selectedChat
  /\ ~vcMounted
  /\ selectedChat' = c
  /\ hCurrentAudio' = currentAudio
  /\ sent' = EffectEmits(c) /\ alert' = "none"
  /\ UNCHANGED <<chatMounted, usersLoading, followedUsers, callVars, audioVars, callReq, jobVars,
                 idVars, srcObject, muteVars>>
  /\ ChatRenderVCOn(ChatEffectRerun(listeners))
  /\ iceSession' = IceKeep

\* click on the back arrow of the conversation header
handleBackToChats ==
  /\ selectedChat # Null
  /\ ~vcMounted
  /\ selectedChat' = Null
  /\ hCurrentAudio' = currentAudio
  /\ sent' = EffectEmits(Null) /\ alert' = "none"
  /\ UNCHANGED <<chatMounted, usersLoading, followedUsers, callVars, audioVars, callReq, jobVars,
                 idVars, srcObject, muteVars>>
  /\ ChatRenderVCOn(ChatEffectRerun(listeners))
  /\ iceSession' = IceKeep

\* initiateCall(type) up to `await callAPI.initiateCall(selectedChat.id, type)`
initiateCall(type) ==
  /\ selectedChat # Null
  /\ ~vcMounted
  /\ callReq = NoReq
  /\ callReq' = [to |-> selectedChat, type |-> type]
  /\ sent' = <<>> /\ alert' = "none"
  /\ UNCHANGED <<selVars, restVars, callVars, audioVars, hCurrentAudio, vcVars, jobVars, iceSession>>

\* the call-record request succeeded: outgoing modal, emit callUser
initiateCallOk ==
  /\ callReq # NoReq
  /\ callReq' = NoReq
  /\ callType' = callReq.type
  /\ callModalType' = "outgoing"
  /\ showCallModal' = TRUE
  /\ sent' = <<Msg("callUser", callReq.to, Me, callReq.type, NoDesc)>> /\ alert' = "none"
  /\ UNCHANGED <<selVars, restVars, showCall, incomingCallData, audioVars, hCurrentAudio, jobVars>>
  /\ ChatRenderVC
  /\ iceSession' = IceKeep

\* a catch branch that opens the outgoing modal and emits callUser although no call
\* record was created
initiateCallFailCalls ==
  /\ callReq # NoReq
  /\ callReq' = NoReq
  /\ callType' = callReq.type
  /\ callModalType' = "outgoing"
  /\ showCallModal' = TRUE
  /\ sent' = <<Msg("callUser", callReq.to, Me, callReq.type, NoDesc)>> /\ alert' = "none"
  /\ UNCHANGED <<selVars, restVars, showCall, incomingCallData, audioVars, hCurrentAudio, jobVars>>
  /\ ChatRenderVC
  /\ iceSession' = IceKeep

\* the call-record request failed: catch logs only
initiateCallFail ==
  /\ callReq # NoReq
  /\ callReq' = NoReq
  /\ sent' = <<>> /\ alert' = "none"
  /\ UNCHANGED <<selVars, restVars, callVars, audioVars, hCurrentAudio, vcVars, jobVars, iceSession>>

\* socket.on('callUser'): store the caller, show the incoming modal, start the ringing loop
OnCallUser(from, type) ==
  /\ listeners["callUser"] > 0
  /\ nextAudio < MaxAudio
  /\ incomingCallData' = from
  /\ callType' = type
  /\ callModalType' = "incoming"
  /\ showCallModal' = TRUE
  /\ nextAudio' = nextAudio + 1
  /\ playing' = playing \cup {nextAudio + 1}
  /\ currentAudio' = nextAudio + 1
  /\ sent' = <<>> /\ alert' = "none"
  /\ UNCHANGED <<selVars, restVars, showCall, hCurrentAudio, callReq, jobVars>>
  /\ ChatRenderVC
  /\ iceSession' = IceKeep

\* socket.on('callAccepted'): the handler sees the currentAudio of the render that registered it
OnCallAccepted ==
  /\ listeners["callAccepted"] > 0
  /\ playing' = IF hCurrentAudio # 0 THEN Pause(hCurrentAudio) ELSE playing
  /\ currentAudio' = IF hCurrentAudio # 0 THEN 0 ELSE currentAudio
  /\ showCallModal' = FALSE
  /\ showCall' = TRUE
  /\ sent' = <<>> /\ alert' = "none"
  /\ UNCHANGED <<selVars, restVars, callType, callModalType, incomingCallData, nextAudio, hCurrentAudio,
                 callReq, jobVars>>
  /\ ChatRenderVC
  /\ iceSession' = IceKeep

\* a callRejected handler that opens the call view, as callAccepted does
OnCallRejectedShowsCall ==
  /\ listeners["callRejected"] > 0
  /\ playing' = IF hCurrentAudio # 0 THEN Pause(hCurrentAudio) ELSE playing
  /\ currentAudio' = IF hCurrentAudio # 0 THEN 0 ELSE currentAudio
  /\ showCallModal' = FALSE
  /\ showCall' = TRUE
  /\ sent' = <<>> /\ alert' = "none"
  /\ UNCHANGED <<selVars, restVars, callType, callModalType, incomingCallData, nextAudio, hCurrentAudio,
                 callReq, jobVars>>
  /\ ChatRenderVC
  /\ iceSession' = IceKeep

\* socket.on('callRejected')
OnCallRejected ==
  /\ listeners["callRejected"] > 0
  /\ playing' = IF hCurrentAudio # 0 THEN Pause(hCurrentAudio) ELSE playing
  /\ currentAudio' = IF hCurrentAudio # 0 THEN 0 ELSE currentAudio
  /\ showCallModal' = FALSE
  /\ sent' = <<>> /\ alert' = "none"
  /\ UNCHANGED <<selVars, restVars, showCall, callType, callModalType, incomingCallData, nextAudio,
                 hCurrentAudio, callReq, jobVars>>
  /\ ChatRenderVC
  /\ iceSession' = IceKeep

\* socket.on('callEnded')
OnCallEnded ==
  /\ listeners["callEnded"] > 0
  /\ showCall' = FALSE
  /\ sent' = <<>> /\ alert' = "none"
  /\ UNCHANGED <<selVars, restVars, showCallModal, callType, callModalType, incomingCallData, audioVars,
                 hCurrentAudio, callReq, jobVars>>
  /\ ChatRenderVC
  /\ iceSession' = IceKeep

\* socket.on('callFailed')
OnCallFailed ==
  /\ listeners["callFailed"] > 0
  /\ showCallModal' = FALSE
  /\ sent' = <<>> /\ alert' = "callFailed"
  /\ UNCHANGED <<selVars, restVars, showCall, callType, callModalType, incomingCallData, audioVars,
                 hCurrentAudio, callReq, jobVars>>
  /\ ChatRenderVC
  /\ iceSession' = IceKeep

\* const callerId = incomingCallData?.from || selectedChat.id
CallerId == IF incomingCallData # Null THEN incomingCallData ELSE selectedChat

\* CallModal onAccept (the modal of an incoming call)
onAccept ==
  /\ showCallModal /\ selectedChat # Null
  /\ callModalType = "incoming"
  /\ playing' = IF currentAudio # 0 THEN Pause(currentAudio) ELSE playing
  /\ currentAudio' = 0
  /\ sent' = <<Emit("answerCall", CallerId)>> /\ alert' = "none"
  /\ showCallModal' = FALSE
  /\ showCall' = TRUE
  /\ UNCHANGED <<selVars, restVars, callType, callModalType, incomingCallData, nextAudio, hCurrentAudio,
                 callReq, jobVars>>
  /\ ChatRenderVC
  /\ iceSession' = IceKeep

\* CallModal onDecline
onDecline ==
  /\ showCallModal /\ selectedChat # Null
  /\ playing' = IF currentAudio # 0 THEN Pause(currentAudio) ELSE playing
  /\ currentAudio' = 0
  /\ sent' = <<Emit("rejectCall", CallerId)>> /\ alert' = "none"
  /\ showCallModal' = FALSE
  /\ UNCHANGED <<selVars, restVars, showCall, callType, callModalType, incomingCallData, nextAudio,
                 hCurrentAudio, callReq, jobVars>>
  /\ ChatRenderVC
  /\ iceSession' = IceKeep

\* handleEndCall: if (recipientId) socket.emit('endCall', { to: recipientId })
handleEndCall == IF recipientId # Null THEN <<Emit("endCall", recipientId)>> ELSE <<>>

\* the hang-up button of the connected call view: handleEndCall, then Chat's onEndCall closure
ClickEndCall ==
  /\ vcMounted /\ callStatus = "connected"
  /\ sent' = handleEndCall \o <<Emit("endCall", CallerId)>>
  /\ alert' = "none"
  /\ showCall' = FALSE
  /\ UNCHANGED <<selVars, restVars, showCallModal, callType, callModalType, incomingCallData, audioVars,
                 hCurrentAudio, callReq, jobVars>>
  /\ ChatRenderVC
  /\ iceSession' = IceKeep


\* ============================================== VideoCall: media and timer
chatVars == <<chatMounted, selVars, callVars, audioVars, hCurrentAudio, callReq, msgVars, idVars,
              srcObject, muteVars>>

\* an interval that is never cleared: it keeps ticking whatever the status
TickWhenever ==
  /\ vcMounted
  /\ callDuration < MaxDuration
  /\ callDuration' = callDuration + 1
  /\ sent' = <<>> /\ alert' = "none"
  /\ UNCHANGED <<chatVars, vcMounted, vcInst, callStatus, isVideoCall, recipientId, timerOn,
                 peerConnectionRef, localStreamRef, nextRun, gum, pcs, listeners, jobVars, iceSession>>

\* setInterval callback: setCallDuration(prev => prev + 1)
Tick ==
  /\ timerOn
  /\ callDuration < MaxDuration
  /\ callDuration' = callDuration + 1
  /\ sent' = <<>> /\ alert' = "none"
  /\ UNCHANGED <<chatVars, vcMounted, vcInst, callStatus, isVideoCall, recipientId, timerOn,
                 peerConnectionRef, localStreamRef, nextRun, gum, pcs, listeners, jobVars, iceSession>>

\* the instance that issued request r is still the mounted one
Alive(inst) == vcMounted /\ inst = vcInst

\* initializeMedia after `await getUserMedia` resolved: store the stream in the ref and add its
\* tracks to the peer connection; addTrack on a closed connection throws into the catch (alert)
initializeMediaOk(r) ==
  /\ gum[r].st = "pending"
  /\ gum' = [gum EXCEPT ![r].st = "live"]
  /\ localStreamRef' = IF Alive(gum[r].inst) THEN r ELSE localStreamRef
  /\ alert' = IF Alive(gum[r].inst) /\ ~pcs[peerConnectionRef].closed THEN "none" ELSE "media"
  /\ sent' = <<>>
  /\ UNCHANGED <<chatVars, vcMounted, vcInst, callStatus, isVideoCall, recipientId, callDuration,
                 timerOn, peerConnectionRef, nextRun, pcs, listeners, jobVars, iceSession>>

\* initializeMedia when getUserMedia rejected: console.error and alert, nothing else
initializeMediaFail(r) ==
  /\ gum[r].st = "pending"
  /\ gum' = [gum EXCEPT ![r].st = "failed"]
  /\ alert' = "media"
  /\ sent' = <<>>
  /\ UNCHANGED <<chatVars, vcMounted, vcInst, callStatus, isVideoCall, recipientId, callDuration,
                 timerOn, peerConnectionRef, localStreamRef, nextRun, pcs, listeners, jobVars,
                 iceSession>>

\* ================================================ VideoCall: negotiation
vcFrame == <<vcMounted, vcInst, callStatus, isVideoCall, recipientId, callDuration, timerOn,
             peerConnectionRef, localStreamRef, nextRun, gum, listeners>>

RemoteOffer == [kind |-> "offer", by |-> 0]

RemoteAnswer == [kind |-> "answer", by |-> 0]

\* peerConnectionRef.current as a continuation of job j reads it: the ref of j's own instance
\* (after unmount that ref keeps the last, closed, connection)
RefPc(j) == IF Alive(j.inst) THEN peerConnectionRef ELSE j.pc

Job(fn, pos, pc, inst, peer, arg, desc, done) ==
  [fn |-> fn, pos |-> pos, pc |-> pc, inst |-> inst, peer |-> peer, arg |-> arg, desc |-> desc, done |-> done]

\* socket.on('offer', handleOffer): handleOffer up to its first await
OnOffer(from) ==
  /\ listeners["offer"] > 0
  /\ IF peerConnectionRef # 0
       THEN /\ Cardinality(jobs) < MaxJobs
            /\ jobs' = jobs \cup {Job("handleOffer", "setRemoteDescription", peerConnectionRef,
                                      vcInst, from, RemoteOffer, NoDesc, <<>>)}
       ELSE jobs' = jobs
  /\ sent' = <<>> /\ alert' = "none"
  /\ UNCHANGED <<chatVars, vcVars, offerTimers, iceSession>>

\* handleOffer: `await setRemoteDescription(data.offer)` settles, then createAnswer() is called.
\* A remote offer is accepted in stable / have-remote-offer; in have-local-offer the browser
\* either rolls the local offer back or rejects; a closed connection never continues.
handleOfferRemoteSet(j) ==
  /\ j \in jobs /\ j.fn = "handleOffer" /\ j.pos = "setRemoteDescription"
  /\ \E rollback \in BOOLEAN :
       LET p == pcs[j.pc]
           ok == ~p.closed /\ (p.sig \in {"stable", "have-remote-offer"}
                               \/ (p.sig = "have-local-offer" /\ rollback))
       IN IF ok
            THEN /\ pcs' = [pcs EXCEPT ![j.pc] =
                              [@ EXCEPT !.sig = "have-remote-offer", !.remote = j.arg,
                                        !.local = IF p.sig = "have-local-offer" THEN NoDesc ELSE @]]
                 /\ jobs' = (jobs \ {j}) \cup
                              {[j EXCEPT !.pos = "createAnswer", !.pc = RefPc(j),
                                         !.done = Append(@, "setRemoteDescription")]}
            ELSE /\ pcs' = pcs
                 /\ jobs' = jobs \ {j}
  /\ sent' = <<>> /\ alert' = "none"
  /\ UNCHANGED <<chatVars, vcFrame, offerTimers, iceSession>>

\* a handleOffer that emits the answer as soon as it is created, before setLocalDescription
handleOfferAnswerSentEarly(j) ==
  /\ j \in jobs /\ j.fn = "handleOffer" /\ j.pos = "createAnswer"
  /\ LET p == pcs[j.pc] IN
       IF ~p.closed /\ p.sig = "have-remote-offer"
         THEN sent' = <<Msg("answer", j.peer, Null, Null, [kind |-> "answer", by |-> j.pc])>>
         ELSE sent' = <<>>
  /\ jobs' = jobs \ {j}
  /\ alert' = "none"
  /\ UNCHANGED <<chatVars, vcVars, offerTimers, iceSession>>

\* handleOffer: `await createAnswer()` settles, then setLocalDescription(answer) is called
handleOfferAnswerCreated(j) ==
  /\ j \in jobs /\ j.fn = "handleOffer" /\ j.pos = "createAnswer"
  /\ LET p == pcs[j.pc] IN
       IF ~p.closed /\ p.sig = "have-remote-offer"
         THEN jobs' = (jobs \ {j}) \cup
                        {[j EXCEPT !.pos = "setLocalDescription", !.pc = RefPc(j),
                                   !.desc = [kind |-> "answer", by |-> j.pc],
                                   !.done = Append(@, "createAnswer")]}
         ELSE jobs' = jobs \ {j}
  /\ sent' = <<>> /\ alert' = "none"
  /\ UNCHANGED <<chatVars, vcVars, offerTimers, iceSession>>

\* handleOffer: `await setLocalDescription(answer)` settles, then socket.emit('answer', ...)
handleOfferLocalSet(j) ==
  /\ j \in jobs /\ j.fn = "handleOffer" /\ j.pos = "setLocalDescription"
  /\ LET p == pcs[j.pc] IN
       IF ~p.closed /\ p.sig = "have-remote-offer" /\ j.desc.by = j.pc
         THEN /\ pcs' = [pcs EXCEPT ![j.pc] = [@ EXCEPT !.sig = "stable", !.local = j.desc]]
              /\ sent' = <<Msg("answer", j.peer, Null, Null, j.desc)>>
         ELSE /\ pcs' = pcs
              /\ sent' = <<>>
  /\ jobs' = jobs \ {j}
  /\ alert' = "none"
  /\ UNCHANGED <<chatVars, vcFrame, offerTimers, iceSession>>

\* socket.on('answer', handleAnswer): setRemoteDescription(data.answer), valid in have-local-offer
handleAnswer ==
  /\ listeners["answer"] > 0
  /\ LET p == pcs[peerConnectionRef] IN
       IF peerConnectionRef # 0 /\ ~p.closed /\ p.sig = "have-local-offer"
         THEN pcs' = [pcs EXCEPT ![peerConnectionRef] = [@ EXCEPT !.sig = "stable", !.remote = RemoteAnswer]]
         ELSE pcs' = pcs
  /\ sent' = <<>> /\ alert' = "none"
  /\ UNCHANGED <<chatVars, vcFrame, jobVars, iceSession>>

\* an 'ice-candidate' event arrives during a session; handleIceCandidate runs if it is registered:
\* addIceCandidate rejects while the connection has no remote description or is closed
handleIceCandidate(c) ==
  /\ InSession
  /\ c \notin iceSession
  /\ iceSession' = iceSession \cup {c}
  /\ LET p == pcs[peerConnectionRef] IN
       IF listeners["ice-candidate"] > 0 /\ peerConnectionRef # 0
            /\ ~p.closed /\ p.remote # NoDesc
         THEN pcs' = [pcs EXCEPT ![peerConnectionRef].cands = @ \cup {c}]
         ELSE pcs' = pcs
  /\ sent' = <<>> /\ alert' = "none"
  /\ UNCHANGED <<chatVars, vcFrame, jobVars>>


\* handleAcceptCall: emit answerCall and arm `setTimeout(() => createOffer(), 1000)`;
\* onAcceptCall() is the parent's callback
handleAcceptCall ==
  /\ vcMounted /\ callStatus = "incoming"
  /\ IF recipientId # Null
       THEN /\ sent' = <<Emit("answerCall", recipientId)>>
            /\ offerTimers' = offerTimers \cup {[inst |-> vcInst, to |-> recipientId]}
       ELSE /\ sent' = <<>>
            /\ offerTimers' = offerTimers
  /\ alert' = "none"
  /\ UNCHANGED <<chatVars, vcVars, jobs, iceSession>>

\* the timeout fires: createOffer up to its first await
\* (`if (!peerConnectionRef.current || !recipientId) return`, then createOffer() on the connection)
createOffer(t) ==
  /\ t \in offerTimers
  /\ offerTimers' = offerTimers \ {t}
  /\ LET pc == IF Alive(t.inst) THEN peerConnectionRef ELSE 0 IN
       IF pc # 0
         THEN /\ Cardinality(jobs) < MaxJobs
              /\ jobs' = jobs \cup {Job("createOffer", "createOffer", pc, t.inst, t.to,
                                        NoDesc, NoDesc, <<>>)}
         ELSE jobs' = jobs
  /\ sent' = <<>> /\ alert' = "none"
  /\ UNCHANGED <<chatVars, vcVars, iceSession>>

\* createOffer: `await createOffer()` settles, then setLocalDescription(offer) is called
createOfferCreated(j) ==
  /\ j \in jobs /\ j.fn = "createOffer" /\ j.pos = "createOffer"
  /\ IF ~pcs[j.pc].closed
       THEN jobs' = (jobs \ {j}) \cup
                      {[j EXCEPT !.pos = "setLocalDescription", !.pc = RefPc(j),
                                 !.desc = [kind |-> "offer", by |-> j.pc],
                                 !.done = Append(@, "createOffer")]}
       ELSE jobs' = jobs \ {j}
  /\ sent' = <<>> /\ alert' = "none"
  /\ UNCHANGED <<chatVars, vcVars, offerTimers, iceSession>>

\* createOffer: `await setLocalDescription(offer)` settles, then socket.emit('offer', ...)
createOfferLocalSet(j) ==
  /\ j \in jobs /\ j.fn = "createOffer" /\ j.pos = "setLocalDescription"
  /\ LET p == pcs[j.pc] IN
       IF ~p.closed /\ p.sig \in {"stable", "have-local-offer"} /\ j.desc.by = j.pc
         THEN /\ pcs' = [pcs EXCEPT ![j.pc] = [@ EXCEPT !.sig = "have-local-offer", !.local = j.desc]]
              /\ sent' = <<Msg("offer", j.peer, Null, Null, j.desc)>>
         ELSE /\ pcs' = pcs
              /\ sent' = <<>>
  /\ jobs' = jobs \ {j}
  /\ alert' = "none"
  /\ UNCHANGED <<chatVars, vcFrame, offerTimers, iceSession>>

\* handleRejectCall: if (recipientId) socket.emit('rejectCall', ...); then the parent's callback
handleRejectCall ==
  /\ vcMounted /\ callStatus \in {"incoming", "outgoing"}
  /\ sent' = (IF recipientId # Null THEN <<Emit("rejectCall", recipientId)>> ELSE <<>>)
  /\ alert' = "none"
  /\ UNCHANGED <<chatVars, vcVars, jobVars, iceSession>>

\* the hang-up button under a parent whose onEndCall is not Chat's
VCEndCall ==
  /\ vcMounted /\ callStatus = "connected"
  /\ sent' = handleEndCall
  /\ alert' = "none"
  /\ UNCHANGED <<chatVars, vcVars, jobVars, iceSession>>

\* a parent renders <VideoCall callStatus=... isVideoCall=... recipientId=.../>
ParentMount(status, video, rid) ==
  /\ UNCHANGED <<chatVars, jobVars>>
  /\ sent' = <<>> /\ alert' = "none"
  /\ VCMount(status, video, rid)
  /\ iceSession' = IceKeep

\* the parent re-renders it with other props
ParentProps(status, video, rid) ==
  /\ <<status, video, rid>> # <<callStatus, isVideoCall, recipientId>>
  /\ UNCHANGED <<chatVars, jobVars>>
  /\ sent' = <<>> /\ alert' = "none"
  /\ VCProps(status, video, rid)
  /\ iceSession' = IceKeep

\* the parent stops rendering it
ParentUnmount ==
  /\ UNCHANGED <<chatVars, jobVars>>
  /\ sent' = <<>> /\ alert' = "none"
  /\ VCUnmount
  /\ iceSession' = IceKeep

\* =========================================================== messaging
\* const [messages, ...] = useState([]) / useState({}): nothing displayed, nothing unread;
\* the store is empty and no request is in flight
MsgInit ==
  /\ messages = <<>>
  /\ unreadCounts = [p \in Peers |-> 0]
  /\ lastMessages = [p \in Peers |-> Null]
  /\ sound = FALSE
  /\ db = {} /\ fetches = {} /\ sending = {}

callFrame == <<chatMounted, callVars, audioVars, hCurrentAudio, callReq, vcVars, jobVars, iceSession, idVars, srcObject, muteVars>>

\* a stored message: _id, userId (its author), the counterpart of the conversation it belongs
\* to, and its text
Stored(id, userId, peer, text) == [id |-> id, userId |-> userId, peer |-> peer, text |-> text]

\* an entry of the displayed sequence: { id, text, sender }
Shown(id, text, sender) == [id |-> id, text |-> text, sender |-> sender]

\* response.data.map(msg => ({ id: msg._id, text: msg.text, sender: msg.userId === user?.id ? 'me' : 'other' }))
Format(m) == Shown(m.id, m.text, IF m.userId = Me THEN "me" ELSE "other")

RECURSIVE HistoryFrom(_, _)
\* messagesAPI.getMessages(chatId): the stored messages of the conversation, oldest first
HistoryFrom(chat, i) ==
  IF i > MaxMsg THEN <<>>
  ELSE LET here == {m \in db : m.id = i /\ m.peer = chat} IN
       (IF here = {} THEN <<>> ELSE <<Format(CHOOSE m \in here : TRUE)>>) \o HistoryFrom(chat, i + 1)

History(chat) == HistoryFrom(chat, 1)

\* an effect that starts the history request but leaves the unread counter as it is
SelectedChatEffectKeepsUnread(c) ==
  /\ Cardinality(fetches) < MaxFetch
  /\ fetches' = fetches \cup {[chat |-> c, data |-> History(c)]}
  /\ sound' = FALSE
  /\ UNCHANGED <<messages, unreadCounts, lastMessages, db, sending>>

\* the part of the [selectedChat, user] effect that runs for a selected conversation:
\* fetchMessages(chatId) is started and the conversation's unread counter is cleared
SelectedChatEffect(c) ==
  /\ Cardinality(fetches) < MaxFetch
  /\ fetches' = fetches \cup {[chat |-> c, data |-> History(c)]}
  /\ unreadCounts' = [unreadCounts EXCEPT ![c] = 0]
  /\ sound' = FALSE
  /\ UNCHANGED <<messages, lastMessages, db, sending>>

\* fetchFollowedUsers resolves and selects chatUsers[0]; the effect runs for it
MsgFetchFollowedUsersOk == FetchFollowedUsersOk /\ SelectedChatEffect(FirstPeer)

\* click on a conversation; the effect runs for it
MsgSelectChat(c) == handleSelectChat(c) /\ SelectedChatEffect(c)

\* click on the back arrow; the effect runs without a conversation
MsgBackToChats == handleBackToChats /\ sound' = FALSE
                  /\ UNCHANGED <<messages, unreadCounts, lastMessages, db, fetches, sending>>

\* fetchMessages: the history request resolved, setMessages(formattedMessages)
fetchMessagesOk(f) ==
  /\ f \in fetches
  /\ fetches' = fetches \ {f}
  /\ messages' = f.data
  /\ sound' = FALSE
  /\ sent' = <<>> /\ alert' = "none"
  /\ UNCHANGED <<selVars, callFrame, unreadCounts, lastMessages, db, sending>>

\* fetchMessages: the history request failed, catch logs only
fetchMessagesFail(f) ==
  /\ f \in fetches
  /\ fetches' = fetches \ {f}
  /\ sound' = FALSE
  /\ sent' = <<>> /\ alert' = "none"
  /\ UNCHANGED <<selVars, callFrame, messages, unreadCounts, lastMessages, db, sending>>

\* prev.some(msg => msg.id === newMessage._id)
messageExists(prev, id) == \E i \in DOMAIN prev : prev[i].id = id

\* a receiveMessage handler that appends without looking for the id
OnReceiveMessageNoDedup(m) ==
  /\ listeners["receiveMessage"] > 0
  /\ m \in db
  /\ IF m.userId # Me
       THEN /\ Len(messages) < MaxLen /\ unreadCounts[m.userId] < MaxUnread
            /\ messages' = Append(messages, Shown(m.id, m.text, "other"))
            /\ unreadCounts' = IF selectedChat = Null \/ selectedChat # m.userId
                                 THEN [unreadCounts EXCEPT ![m.userId] = @ + 1]
                                 ELSE unreadCounts
            /\ lastMessages' = [lastMessages EXCEPT ![m.userId] = m.text]
            /\ sound' = TRUE
       ELSE /\ UNCHANGED <<messages, unreadCounts, lastMessages>>
            /\ sound' = FALSE
  /\ sent' = <<>> /\ alert' = "none"
  /\ UNCHANGED <<selVars, callFrame, db, fetches, sending>>

\* a receiveMessage handler that counts every message of another user as unread
OnReceiveMessageAlwaysUnread(m) ==
  /\ listeners["receiveMessage"] > 0
  /\ m \in db
  /\ IF m.userId # Me
       THEN /\ IF ~messageExists(messages, m.id)
                 THEN /\ Len(messages) < MaxLen /\ unreadCounts[m.userId] < MaxUnread
                      /\ messages' = Append(messages, Shown(m.id, m.text, "other"))
                      /\ unreadCounts' = [unreadCounts EXCEPT ![m.userId] = @ + 1]
                      /\ lastMessages' = [lastMessages EXCEPT ![m.userId] = m.text]
                 ELSE UNCHANGED <<messages, unreadCounts, lastMessages>>
            /\ sound' = TRUE
       ELSE /\ UNCHANGED <<messages, unreadCounts, lastMessages>>
            /\ sound' = FALSE
  /\ sent' = <<>> /\ alert' = "none"
  /\ UNCHANGED <<selVars, callFrame, db, fetches, sending>>

\* a receiveMessage handler that plays the sound for every message
OnReceiveMessageAlwaysSound(m) ==
  /\ listeners["receiveMessage"] > 0
  /\ m \in db
  /\ IF m.userId # Me
       THEN IF ~messageExists(messages, m.id)
              THEN /\ Len(messages) < MaxLen /\ unreadCounts[m.userId] < MaxUnread
                   /\ messages' = Append(messages, Shown(m.id, m.text, "other"))
                   /\ unreadCounts' = IF selectedChat = Null \/ selectedChat # m.userId
                                        THEN [unreadCounts EXCEPT ![m.userId] = @ + 1]
                                        ELSE unreadCounts
                   /\ lastMessages' = [lastMessages EXCEPT ![m.userId] = m.text]
              ELSE UNCHANGED <<messages, unreadCounts, lastMessages>>
       ELSE UNCHANGED <<messages, unreadCounts, lastMessages>>
  /\ sound' = TRUE
  /\ sent' = <<>> /\ alert' = "none"
  /\ UNCHANGED <<selVars, callFrame, db, fetches, sending>>

\* socket.on('receiveMessage'): a stored message is relayed to this client
OnReceiveMessage(m) ==
  /\ listeners["receiveMessage"] > 0
  /\ m \in db
  /\ IF m.userId # Me
       THEN /\ IF ~messageExists(messages, m.id)
                 THEN /\ Len(messages) < MaxLen /\ unreadCounts[m.userId] < MaxUnread
                      /\ messages' = Append(messages, Shown(m.id, m.text, "other"))
                      /\ unreadCounts' = IF selectedChat = Null \/ selectedChat # m.userId
                                           THEN [unreadCounts EXCEPT ![m.userId] = @ + 1]
                                           ELSE unreadCounts
                      /\ lastMessages' = [lastMessages EXCEPT ![m.userId] = m.text]
                 ELSE UNCHANGED <<messages, unreadCounts, lastMessages>>
            /\ sound' = TRUE
       ELSE /\ UNCHANGED <<messages, unreadCounts, lastMessages>>
            /\ sound' = FALSE
  /\ sent' = <<>> /\ alert' = "none"
  /\ UNCHANGED <<selVars, callFrame, db, fetches, sending>>

\* a counterpart sends a message in its conversation with the local user: the server stores it
PeerPosts(x, text) ==
  /\ Cardinality(db) < MaxMsg
  /\ db' = db \cup {Stored(Cardinality(db) + 1, x, x, text)}
  /\ sound' = FALSE
  /\ sent' = <<>> /\ alert' = "none"
  /\ UNCHANGED <<selVars, callFrame, messages, unreadCounts, lastMessages, fetches, sending>>

\* handleSendMessage up to `await messagesAPI.createMessage(chatId, message)`; the server
\* stores the message (stored) or the request fails
handleSendMessage(text, stored) ==
  /\ selectedChat # Null
  /\ Cardinality(sending) < MaxSend
  /\ Cardinality(db) < MaxMsg
  /\ LET id == IF stored THEN Cardinality(db) + 1 ELSE 0 IN
       /\ sending' = sending \cup {[chat |-> selectedChat, text |-> text, id |-> id]}
       /\ db' = IF stored THEN db \cup {Stored(id, Me, selectedChat, text)} ELSE db
  /\ sound' = FALSE
  /\ sent' = <<>> /\ alert' = "none"
  /\ UNCHANGED <<selVars, callFrame, messages, unreadCounts, lastMessages, fetches>>

\* handleSendMessage after the await: append under response.data._id, set the preview,
\* emit sendMessage
createMessageOk(s) ==
  /\ s \in sending /\ s.id # 0
  /\ Len(messages) < MaxLen
  /\ sending' = sending \ {s}
  /\ messages' = Append(messages, Shown(s.id, s.text, "me"))
  /\ lastMessages' = [lastMessages EXCEPT ![s.chat] = s.text]
  /\ sent' = <<Msg("sendMessage", s.chat, Me, Null, NoDesc)>> /\ alert' = "none"
  /\ sound' = FALSE
  /\ UNCHANGED <<selVars, callFrame, unreadCounts, db, fetches>>

\* a catch branch that displays and broadcasts the message although it was not stored
createMessageFailShown(s) ==
  /\ s \in sending /\ s.id = 0
  /\ Len(messages) < MaxLen
  /\ sending' = sending \ {s}
  /\ messages' = Append(messages, Shown(s.id, s.text, "me"))
  /\ lastMessages' = [lastMessages EXCEPT ![s.chat] = s.text]
  /\ sent' = <<Msg("sendMessage", s.chat, Me, Null, NoDesc)>> /\ alert' = "none"
  /\ sound' = FALSE
  /\ UNCHANGED <<selVars, callFrame, unreadCounts, db, fetches>>

\* handleSendMessage when createMessage rejected: catch logs only
createMessageFail(s) ==
  /\ s \in sending /\ s.id = 0
  /\ sending' = sending \ {s}
  /\ sent' = <<>> /\ alert' = "none"
  /\ sound' = FALSE
  /\ UNCHANGED <<selVars, callFrame, messages, unreadCounts, lastMessages, db, fetches>>

\* ================================== the call view without a peer connection
\* localVideoRef: the local <video> element is rendered only in the video layout,
\* and a new element shows no stream
VariantInit == srcObject = 0

\* body of the effect for one run: timer and initializeMedia()
VariantEffect(status, video, inst, g) ==
  LET r == nextRun + 1 IN
  /\ nextRun < MaxRuns
  /\ nextRun' = r
  /\ timerOn' = (status = "connected")
  /\ gum' = IF status \in MediaStatus
              THEN [g EXCEPT ![r] = [st |-> "pending", inst |-> inst, video |-> video]]
              ELSE g

\* what no step of this view touches
variantFrame == <<chatMounted, selVars, callVars, audioVars, hCurrentAudio, callReq, msgVars, idVars,
                  muteVars,
                  jobVars, iceSession, peerConnectionRef, localStreamRef, pcs, listeners>>

\* first render of the view followed by its effect
VariantMount(status, video, rid) ==
  /\ ~vcMounted
  /\ vcMounted' = TRUE
  /\ vcInst' = vcInst + 1
  /\ callStatus' = status /\ isVideoCall' = video /\ recipientId' = rid
  /\ callDuration' = 0
  /\ srcObject' = 0
  /\ VariantEffect(status, video, vcInst + 1, gum)
  /\ sent' = <<>> /\ alert' = "none"
  /\ UNCHANGED variantFrame

\* re-render with new props: the <video> element comes and goes with isVideoCall; with a new
\* callStatus the cleanup stops the stream the element shows, then the effect runs again
VariantProps(status, video, rid) ==
  LET shows == IF video /\ isVideoCall THEN srcObject ELSE 0 IN
  /\ vcMounted
  /\ <<status, video, rid>> # <<callStatus, isVideoCall, recipientId>>
  /\ vcMounted' = TRUE /\ vcInst' = vcInst
  /\ callStatus' = status /\ isVideoCall' = video /\ recipientId' = rid
  /\ callDuration' = callDuration
  /\ srcObject' = shows
  /\ IF status # callStatus
       THEN VariantEffect(status, video, vcInst, StopTracks(gum, shows))
       ELSE UNCHANGED <<timerOn, nextRun, gum>>
  /\ sent' = <<>> /\ alert' = "none"
  /\ UNCHANGED variantFrame

\* the view is removed from the tree: the cleanup reads localVideoRef.current, which React
\* has or has not yet detached when the cleanup runs (attached), and stops what it shows
VariantUnmount ==
  /\ vcMounted
  /\ vcMounted' = FALSE
  /\ vcInst' = vcInst
  /\ callStatus' = "connected" /\ isVideoCall' = FALSE /\ recipientId' = Null
  /\ callDuration' = 0 /\ timerOn' = FALSE
  /\ \E attached \in BOOLEAN :
       gum' = IF attached /\ isVideoCall THEN StopTracks(gum, srcObject) ELSE gum
  /\ srcObject' = 0
  /\ nextRun' = nextRun
  /\ sent' = <<>> /\ alert' = "none"
  /\ UNCHANGED variantFrame

\* initializeMedia after `await getUserMedia` resolved:
\* if (localVideoRef.current && isVideoCall) localVideoRef.current.srcObject = stream
variantInitializeMediaOk(r) ==
  /\ gum[r].st = "pending"
  /\ gum' = [gum EXCEPT ![r].st = "live"]
  /\ srcObject' = IF Alive(gum[r].inst) /\ isVideoCall /\ gum[r].video THEN r ELSE srcObject
  /\ sent' = <<>> /\ alert' = "none"
  /\ UNCHANGED <<variantFrame, vcMounted, vcInst, callStatus, isVideoCall, recipientId, callDuration,
                 timerOn, nextRun>>

\* initializeMedia when getUserMedia rejected: console.error and alert
variantInitializeMediaFail(r) ==
  /\ gum[r].st = "pending"
  /\ gum' = [gum EXCEPT ![r].st = "failed"]
  /\ sent' = <<>> /\ alert' = "media"
  /\ UNCHANGED <<variantFrame, vcMounted, vcInst, callStatus, isVideoCall, recipientId, callDuration,
                 timerOn, nextRun, srcObject>>

\* ============================================ call view: mute controls
\* no view is mounted; the tracks getUserMedia returns are enabled
MuteInit ==
  /\ isVideoEnabled = FALSE /\ isAudioEnabled = TRUE
  /\ trackEnabled = [r \in Runs |-> [audio |-> TRUE, video |-> TRUE]]

\* what the steps of the view under its parent leave alone
muteFrame == <<chatMounted, selVars, callVars, audioVars, hCurrentAudio, callReq, msgVars, idVars,
               srcObject, jobVars>>

\* useState(isVideoCall) / useState(true) at the first render of the view
MuteMount(status, video, rid) ==
  /\ UNCHANGED <<muteFrame, trackEnabled>>
  /\ VCMount(status, video, rid)
  /\ isVideoEnabled' = video /\ isAudioEnabled' = TRUE
  /\ sent' = <<>> /\ alert' = "none"
  /\ iceSession' = IceKeep

\* the parent changes callStatus or recipientId; the flags are state and stay
MuteProps(status, rid) ==
  /\ UNCHANGED <<muteFrame, muteVars>>
  /\ <<status, rid>> # <<callStatus, recipientId>>
  /\ VCProps(status, isVideoCall, rid)
  /\ sent' = <<>> /\ alert' = "none"
  /\ iceSession' = IceKeep

\* the parent stops rendering the view; its state is discarded
MuteUnmount ==
  /\ UNCHANGED <<muteFrame, trackEnabled>>
  /\ VCUnmount
  /\ isVideoEnabled' = FALSE /\ isAudioEnabled' = TRUE
  /\ sent' = <<>> /\ alert' = "none"
  /\ iceSession' = IceKeep

\* toggleAudio (the button is rendered while callStatus === 'connected')
toggleAudio ==
  /\ vcMounted /\ callStatus = "connected"
  /\ trackEnabled' = IF localStreamRef # 0
                       THEN [trackEnabled EXCEPT ![localStreamRef].audio = ~isAudioEnabled]
                       ELSE trackEnabled
  /\ isAudioEnabled' = ~isAudioEnabled
  /\ sent' = <<>> /\ alert' = "none"
  /\ UNCHANGED <<muteFrame, vcVars, iceSession, isVideoEnabled>>

\* toggleVideo (the button is rendered in a connected video call); the stream of a video
\* call has a video track
toggleVideo ==
  /\ vcMounted /\ callStatus = "connected" /\ isVideoCall
  /\ trackEnabled' = IF localStreamRef # 0
                       THEN [trackEnabled EXCEPT ![localStreamRef].video = ~isVideoEnabled]
                       ELSE trackEnabled
  /\ isVideoEnabled' = ~isVideoEnabled
  /\ sent' = <<>> /\ alert' = "none"
  /\ UNCHANGED <<muteFrame, vcVars, iceSession, isAudioEnabled>>

\* ================================================= Chat mount and unmount
\* the Chat view leaves the tree: the cleanup of its effects runs (the call view, if shown,
\* goes with it), its state is discarded; ringing Audio objects are not paused by any cleanup
ChatUnmount ==
  /\ chatMounted
  /\ chatMounted' = FALSE
  /\ selectedChat' = Null /\ usersLoading' = FALSE /\ followedUsers' = {}
  /\ showCall' = FALSE /\ showCallModal' = FALSE
  /\ callType' = "video" /\ callModalType' = "outgoing"
  /\ incomingCallData' = Null
  /\ currentAudio' = 0 /\ hCurrentAudio' = 0
  /\ messages' = <<>>
  /\ unreadCounts' = [p \in Peers |-> 0]
  /\ lastMessages' = [p \in Peers |-> Null]
  /\ sound' = FALSE
  /\ sent' = <<>> /\ alert' = "none"
  /\ iceSession' = {}
  /\ UNCHANGED <<playing, nextAudio, callReq, jobVars, db, fetches, sending, idVars, srcObject, muteVars>>
  /\ IF vcMounted
       THEN VCUnmountOn(ChatListenersOff(listeners))
       ELSE /\ listeners' = ChatListenersOff(listeners)
            /\ UNCHANGED <<vcMounted, vcInst, callStatus, isVideoCall, recipientId, callDuration,
                           timerOn, peerConnectionRef, localStreamRef, nextRun, gum, pcs>>

\* the Chat view enters the tree: fresh state, fetchFollowedUsers() is issued and the
\* [selectedChat, user] effect runs for the first time
ChatMount ==
  /\ ~chatMounted
  /\ chatMounted' = TRUE
  /\ usersLoading' = TRUE
  /\ listeners' = ChatListenersOn(listeners)
  /\ sent' = EffectEmits(Null) /\ alert' = "none"
  /\ UNCHANGED <<selectedChat, followedUsers, callVars, audioVars, hCurrentAudio, callReq,
                 vcMounted, vcInst, callStatus, isVideoCall, recipientId, callDuration, timerOn,
                 peerConnectionRef, localStreamRef, nextRun, gum, pcs,
                 jobVars, iceSession, msgVars, idVars, srcObject, muteVars>>

\* ======================================================== chat pairing
RECURSIVE StrLess(_, _)
\* x < y on strings, as Array.prototype.sort() without a comparator orders them:
\* code unit by code unit, a proper prefix before the longer string
StrLess(x, y) ==
  IF y = <<>> THEN FALSE
  ELSE IF x = <<>> THEN TRUE
  ELSE IF Head(x) # Head(y) THEN Head(x) < Head(y)
  ELSE StrLess(Tail(x), Tail(y))

\* [userId1, userId2].sort(): the elements are exchanged when the second is smaller
Sort2(a, b) == IF StrLess(b, a) THEN <<b, a>> ELSE <<a, b>>

\* arr.join('_')
Join(arr) == arr[1] \o <<Sep>> \o arr[2]

\* the pairing without the sort
generateChatIdUnsorted(userId1, userId2) == Join(<<userId1, userId2>>)

\* const generateChatId = (userId1, userId2) => [userId1, userId2].sort().join('_')
generateChatId(userId1, userId2) == Join(Sort2(userId1, userId2))

\* the other participant of the pair
Other(i) == 3 - i

\* the participants outside a conversation view
IdInit ==
  /\ userIds \in [1..2 -> UserIds]
  /\ chatIds = [i \in 1..2 |-> NoChatId]

\* participant i opens the conversation with the other one: the effect computes
\* chatId = generateChatId(user.id, selectedChat.id), fetches its history and joins its room
JoinChat(i) ==
  /\ chatIds[i] = NoChatId
  /\ chatIds' = [chatIds EXCEPT ![i] = generateChatId(userIds[i], userIds[Other(i)])]
  /\ UNCHANGED <<chatMounted, selVars, callVars, audioVars, hCurrentAudio, callReq, sent, alert,
                 vcVars, jobVars, iceSession, msgVars, userIds, srcObject, muteVars>>

\* participant i leaves the conversation view
LeaveChat(i) ==
  /\ chatIds[i] # NoChatId
  /\ chatIds' = [chatIds EXCEPT ![i] = NoChatId]
  /\ UNCHANGED <<chatMounted, selVars, callVars, audioVars, hCurrentAudio, callReq, sent, alert,
                 vcVars, jobVars, iceSession, msgVars, userIds, srcObject, muteVars>>

\* ======================================================= specifications
\* the local user and the first peer, outside the conversation view
Init == ChatInit /\ VCInit /\ jobs = {} /\ offerTimers = {} /\ MsgInit
        /\ userIds = <<<<49>>, <<97>>>> /\ chatIds = [i \in 1..2 |-> NoChatId]
        /\ VariantInit /\ MuteInit

\* steps the event loop takes by itself: promise continuations and timers
\* (Spec follows the call session: the messaging part of the [selectedChat, user] effect,
\* SelectedChatEffect, is followed by SpecMsg)
Internal ==
  \/ FetchFollowedUsersOk /\ UNCHANGED msgVars
  \/ FetchFollowedUsersFail
  \/ initiateCallOk
  \/ initiateCallFail
  \/ Tick
  \/ \E r \in Runs : initializeMediaOk(r)
  \/ \E r \in Runs : initializeMediaFail(r)
  \/ \E j \in jobs : handleOfferRemoteSet(j)
  \/ \E j \in jobs : handleOfferAnswerCreated(j)
  \/ \E j \in jobs : handleOfferLocalSet(j)

\* clicks of the local user
User ==
  \/ \E c \in Peers : handleSelectChat(c) /\ UNCHANGED msgVars
  \/ handleBackToChats /\ UNCHANGED msgVars
  \/ \E t \in CallTypes : initiateCall(t)
  \/ onAccept
  \/ onDecline
  \/ ClickEndCall

\* events relayed by the signaling server
Remote ==
  \/ \E from \in Peers, t \in CallTypes : OnCallUser(from, t)
  \/ OnCallAccepted
  \/ OnCallRejected
  \/ OnCallEnded
  \/ OnCallFailed
  \/ \E from \in Peers : OnOffer(from)
  \/ handleAnswer
  \/ \E c \in Cands : handleIceCandidate(c)

Next == Internal \/ User \/ Remote

Spec == Init /\ [][Next]_vars

NextVC ==
  \/ \E st \in {"incoming", "outgoing", "connected"}, v \in BOOLEAN, rid \in {FirstPeer, Null} :
       ParentMount(st, v, rid)
  \/ \E st \in {"incoming", "outgoing", "connected"}, v \in BOOLEAN, rid \in {FirstPeer, Null} :
       ParentProps(st, v, rid)
  \/ ParentUnmount
  \/ handleAcceptCall
  \/ handleRejectCall
  \/ VCEndCall
  \/ \E t \in offerTimers : createOffer(t)
  \/ \E j \in jobs : createOfferCreated(j)
  \/ \E j \in jobs : createOfferLocalSet(j)
  \/ Tick
  \/ \E r \in Runs : initializeMediaOk(r)
  \/ \E r \in Runs : initializeMediaFail(r)
  \/ \E from \in Peers : OnOffer(from)
  \/ \E j \in jobs : handleOfferRemoteSet(j)
  \/ \E j \in jobs : handleOfferAnswerCreated(j)
  \/ \E j \in jobs : handleOfferLocalSet(j)
  \/ handleAnswer
  \/ \E c \in Cands : handleIceCandidate(c)

SpecVC == Init /\ [][NextVC]_vars

\* the messaging view of the application: no call is placed or received
NextMsg ==
  \/ MsgFetchFollowedUsersOk
  \/ FetchFollowedUsersFail
  \/ \E c \in Peers : MsgSelectChat(c)
  \/ MsgBackToChats
  \/ \E f \in fetches : fetchMessagesOk(f)
  \/ \E f \in fetches : fetchMessagesFail(f)
  \/ \E m \in db : OnReceiveMessage(m)
  \/ \E x \in Peers, t \in Texts : PeerPosts(x, t)
  \/ \E t \in Texts, stored \in BOOLEAN : handleSendMessage(t, stored)
  \/ \E s \in sending : createMessageOk(s)
  \/ \E s \in sending : createMessageFail(s)

SpecMsg == Init /\ [][NextMsg]_vars

\* the pairing of two participants, for every pair of user ids
InitId == ChatInit /\ VCInit /\ jobs = {} /\ offerTimers = {} /\ MsgInit /\ IdInit /\ VariantInit
          /\ MuteInit

NextId ==
  \/ \E i \in 1..2 : JoinChat(i)
  \/ \E i \in 1..2 : LeaveChat(i)

SpecId == InitId /\ [][NextId]_vars

\* the views entering and leaving the tree: Chat is mounted and unmounted, conversations are
\* switched, calls arrive, are answered and end
NextLis ==
  \/ ChatMount
  \/ ChatUnmount
  \/ FetchFollowedUsersOk /\ UNCHANGED msgVars
  \/ FetchFollowedUsersFail
  \/ \E c \in Peers : handleSelectChat(c) /\ UNCHANGED msgVars
  \/ handleBackToChats /\ UNCHANGED msgVars
  \/ \E from \in Peers, t \in CallTypes : OnCallUser(from, t)
  \/ onAccept
  \/ onDecline
  \/ OnCallAccepted
  \/ OnCallRejected
  \/ OnCallEnded
  \/ OnCallFailed
  \/ ClickEndCall

SpecLis == Init /\ [][NextLis]_vars

\* the call view without a peer connection under a parent that mounts it, changes its props
\* and unmounts it
NextVariant ==
  \/ \E st \in {"incoming", "outgoing", "connected"}, v \in BOOLEAN, rid \in {FirstPeer, Null} :
       VariantMount(st, v, rid)
  \/ \E st \in {"incoming", "outgoing", "connected"}, v \in BOOLEAN, rid \in {FirstPeer, Null} :
       VariantProps(st, v, rid)
  \/ VariantUnmount
  \/ \E r \in Runs : variantInitializeMediaOk(r)
  \/ \E r \in Runs : variantInitializeMediaFail(r)

SpecVariant == Init /\ [][NextVariant]_vars

\* the call view and its mute controls under a parent that mounts it, changes its callStatus
\* and unmounts it
NextMute ==
  \/ \E st \in {"incoming", "outgoing", "connected"}, v \in BOOLEAN, rid \in {FirstPeer, Null} :
       MuteMount(st, v, rid)
  \/ \E st \in {"incoming", "outgoing", "connected"}, rid \in {FirstPeer, Null} : MuteProps(st, rid)
  \/ MuteUnmount
  \/ \E r \in Runs : initializeMediaOk(r)
  \/ \E r \in Runs : initializeMediaFail(r)
  \/ toggleAudio
  \/ toggleVideo

SpecMute == Init /\ [][NextMute]_vars

\* ---------------------------------------------------------------- types
TypeOK ==
  /\ selectedChat \in Peers \cup {Null}
  /\ showCall \in BOOLEAN /\ showCallModal \in BOOLEAN
  /\ callType \in CallTypes /\ callModalType \in {"incoming", "outgoing"}
  /\ currentAudio \in 0..MaxAudio /\ hCurrentAudio \in 0..MaxAudio
  /\ playing \subseteq 1..MaxAudio
  /\ peerConnectionRef \in 0..MaxRuns /\ localStreamRef \in 0..MaxRuns
  /\ callDuration \in 0..MaxDuration
  /\ Cardinality(jobs) <= MaxJobs


\* =============================================================== claims
HasSent(log, type) == \E i \in DOMAIN log : log[i].type = type

\* the effect cleanup of the call view runs in this step (unmount, or callStatus changed)
TornDown == vcMounted /\ (~vcMounted' \/ nextRun' # nextRun)

\* C1: a media stream whose getUserMedia was still pending when its call view was torn down
\* is not left running once it resolves: every running stream belongs to the mounted view.
C1_NoTrackLeftRunning == \A r \in Runs : gum[r].st = "live" => Alive(gum[r].inst)

Negotiated ==
  /\ vcMounted /\ peerConnectionRef # 0
  /\ pcs[peerConnectionRef].sig = "stable"
  /\ pcs[peerConnectionRef].local # NoDesc /\ pcs[peerConnectionRef].remote # NoDesc

\* C3: once negotiation has completed, every candidate that arrived during the session has
\* been applied to the session's connection.
C3_NoCandidateDropped == Negotiated => iceSession \subseteq pcs[peerConnectionRef].cands

\* C4: the step that emits answerCall leaves the creation of the offer scheduled.
C4_AcceptSchedulesOffer ==
  [][HasSent(sent', "answerCall") /\ sent' # sent
     => (offerTimers' # {} \/ \E j \in jobs' : j.fn = "createOffer")]_vars

\* C5: the call view is in status connected only when a remote answer has been applied to
\* its peer connection.
C5_ConnectedOnlyAfterAnswer ==
  (vcMounted /\ callStatus = "connected")
    => (peerConnectionRef # 0 /\ pcs[peerConnectionRef].remote.kind = "answer")

\* C6: a description is emitted only by the handler that has just set it as the local
\* description of its connection, after createOffer (offer) or after
\* setRemoteDescription(offer) and createAnswer (answer), in that order.
C6_LocalDescriptionBeforeSend ==
  [][\A i \in DOMAIN sent' :
       sent'[i].type \in {"offer", "answer"} =>
         \E j \in jobs \ jobs' :
           /\ j.pos = "setLocalDescription"
           /\ sent'[i].desc = j.desc /\ sent'[i].desc.kind = sent'[i].type
           /\ pcs'[j.pc].local = j.desc
           /\ sent'[i].type = "offer" =>
                (j.fn = "createOffer" /\ j.done = <<"createOffer">>)
           /\ sent'[i].type = "answer" =>
                (/\ j.fn = "handleOffer"
                 /\ j.done = <<"setRemoteDescription", "createAnswer">>
                 /\ pcs'[j.pc].remote = j.arg)]_vars

\* C6 witness: an offer has just been emitted and is the local description of its connection
C6_Witness ==
  /\ HasSent(sent, "offer")
  /\ peerConnectionRef # 0 /\ pcs[peerConnectionRef].local.kind = "offer"

\* the session is an outgoing call waiting for its answer
Outgoing == showCallModal /\ callModalType = "outgoing" /\ ~showCall

\* C7: a callRejected event that arrives in outgoing closes the modal without opening the
\* call view, and neither while outgoing nor afterwards is there a call view, a peer
\* connection or a local stream of that call.
C7_RejectedOutgoingEnds ==
  [][Outgoing =>
       /\ OnCallRejected =>
            (/\ ~showCallModal' /\ ~showCall' /\ ~vcMounted'
             /\ peerConnectionRef' = 0 /\ localStreamRef' = 0
             /\ nextRun' = nextRun /\ gum' = gum /\ pcs' = pcs)
       /\ Outgoing' => (~vcMounted' /\ nextRun' = nextRun)]_vars

\* C7 witness: an outgoing audio call was placed and its modal is closed again with no call view
C7_Witness ==
  /\ ~showCallModal /\ ~showCall /\ ~vcMounted
  /\ callModalType = "outgoing" /\ callType = "audio"
  /\ incomingCallData = Null /\ callReq = NoReq
  /\ sent = <<>> /\ alert = "none"
  /\ nextRun = 0

\* C8: the call modal and the call view are never active together.
C8_OneSession == ~(showCallModal /\ showCall)

\* C9: when neither the modal nor the call view is active, no ringing audio is playing.
C9_NoRingingWhenIdle == (~showCallModal /\ ~showCall) => playing = {}

\* C10: when getUserMedia fails for the mounted call view, the call is ended (the view is
\* closed), the user is alerted and no further acquisition is started.
C10_MediaFailureAborts ==
  [][\A r \in Runs :
       (initializeMediaFail(r) /\ Alive(gum[r].inst))
         => (~showCall' /\ ~vcMounted' /\ alert' = "media" /\ nextRun' = nextRun)]_vars

\* C11: a callFailed event ends the session: after it neither the call modal nor the call
\* view is shown.
C11_CallFailedEnds == [][OnCallFailed => (~showCallModal' /\ ~showCall')]_vars

\* C12: while a call is pending (the modal of an outgoing or incoming call is shown), a call
\* view exists that is acquiring or holds local media and has built a peer connection.
C12_MediaBuiltWhilePending ==
  showCallModal =>
    /\ vcMounted /\ peerConnectionRef # 0
    /\ \E r \in Runs : gum[r].inst = vcInst /\ gum[r].st \in {"pending", "live"}

\* the incoming-call prompt is on screen: {showCallModal && selectedChat && <CallModal .../>}
PromptShown == showCallModal /\ selectedChat # Null /\ callModalType = "incoming"

\* C13: from idle, a callUser event puts the incoming-call prompt on screen.
C13_CallUserShowsPrompt ==
  [][((~showCallModal /\ ~showCall) /\ \E from \in Peers, t \in CallTypes : OnCallUser(from, t))
     => PromptShown']_vars

\* C14: the session leaves outgoing only by callAccepted, callRejected, callFailed or the
\* local cancel.
C14_OutgoingHasNoTimeout ==
  [][(Outgoing /\ ~Outgoing')
     => (OnCallAccepted \/ OnCallRejected \/ OnCallFailed \/ onDecline)]_vars

\* C15: the duration counter is 0 when a call view is mounted, changes only by a tick that
\* adds exactly 1 while the view is mounted with status connected and its interval set, and
\* an interval exists only for a mounted view with status connected.
C15_DurationTicksOnlyConnected ==
  [][/\ (~vcMounted /\ vcMounted') => callDuration' = 0
     /\ (vcMounted /\ vcMounted' /\ callDuration' # callDuration)
          => (/\ callDuration' = callDuration + 1
              /\ callStatus = "connected" /\ timerOn
              /\ callStatus' = callStatus)
     /\ timerOn' => (vcMounted' /\ callStatus' = "connected")]_vars

\* C15 witness: a view that went from incoming to connected has counted one tick
C15_Witness ==
  /\ vcMounted /\ callStatus = "connected" /\ timerOn
  /\ callDuration = 1 /\ nextRun = 2 /\ vcInst = 1

\* number of entries of the displayed sequence with the given id
CountId(seq, id) == Cardinality({i \in DOMAIN seq : seq[i].id = id})

\* C17: a relayed message of another user is displayed after its delivery, a delivery of a
\* message whose id is already displayed changes neither the displayed sequence nor the
\* unread counters nor the previews, and no relayed id is displayed twice.
C17_DuplicateDeliveryDropped ==
  [][\A m \in db :
       (m.userId # Me /\ OnReceiveMessage(m)) =>
         /\ CountId(messages', m.id) = 1
         /\ messageExists(messages, m.id) =>
              (messages' = messages /\ unreadCounts' = unreadCounts /\ lastMessages' = lastMessages)]_vars

\* C17 witness: a message of another user was delivered again after the local user's own
\* message had been appended behind it, and nothing was appended for it
C17_Witness ==
  /\ sound
  /\ Len(messages) = 2
  /\ messages[1].sender = "other" /\ messages[2].sender = "me"

\* C18: when a send completes with id m the displayed sequence holds exactly one entry with
\* id m, and the echo of an own message leaves the displayed sequence unchanged.
C18_SentShownOnce ==
  [][/\ \A s \in sending : createMessageOk(s) => CountId(messages', s.id) = 1
     /\ \A m \in db : (m.userId = Me /\ OnReceiveMessage(m)) => messages' = messages]_vars

\* C19: a delivered message of another user that is not yet displayed is appended when its
\* sender is the selected conversation; otherwise the displayed sequence is unchanged, the
\* sender's unread counter grows by one and the sender's preview becomes the message text.
C19_ReceiveRoutesBySender ==
  [][\A m \in db :
       (m.userId # Me /\ ~messageExists(messages, m.id) /\ OnReceiveMessage(m)) =>
         IF selectedChat = m.userId
           THEN messages' = Append(messages, Shown(m.id, m.text, "other"))
           ELSE /\ messages' = messages
                /\ unreadCounts' = [unreadCounts EXCEPT ![m.userId] = @ + 1]
                /\ lastMessages' = [lastMessages EXCEPT ![m.userId] = m.text]]_vars

\* C20: an unread counter grows only by one, in a receiveMessage step for a message of that
\* user, while that user's conversation is not the selected one.
C20_UnreadOnlyForOtherChats ==
  [][\A x \in Peers :
       unreadCounts'[x] > unreadCounts[x] =>
         /\ unreadCounts'[x] = unreadCounts[x] + 1
         /\ selectedChat # x /\ selectedChat' = selectedChat
         /\ \E m \in db : m.userId = x /\ OnReceiveMessage(m)]_vars

\* C20 witness: with u2's conversation open, a message of u2 and a message of u3 were
\* delivered: only u3's counter was incremented
C20_Witness ==
  /\ selectedChat = "u2" /\ sound
  /\ unreadCounts["u2"] = 0 /\ unreadCounts["u3"] = 1
  /\ \E m \in db : m.userId = "u2" /\ messageExists(messages, m.id)
  /\ \E m \in db : m.userId = "u3" /\ messageExists(messages, m.id)

\* C16: for all user ids a and b, generateChatId(a, b) = generateChatId(b, a): once both
\* participants of a pair have opened the conversation, they hold the same chatId, made
\* of the two ids around the separator.
C16_ChatIdSymmetric ==
  /\ generateChatId(userIds[1], userIds[2]) = generateChatId(userIds[2], userIds[1])
  /\ \A i \in 1..2 :
       chatIds[i] # NoChatId =>
         /\ chatIds[Other(i)] # NoChatId => chatIds[i] = chatIds[Other(i)]
         /\ chatIds[i] \in {userIds[1] \o <<Sep>> \o userIds[2], userIds[2] \o <<Sep>> \o userIds[1]}

\* both participants joined, the ids differ in a position after a common prefix that is
\* the separator character, and the first participant's id is the larger one
C16_Witness ==
  /\ userIds[1] = <<95, 97>> /\ userIds[2] = <<95, 49>>
  /\ chatIds[1] = <<95, 49, 95, 95, 97>>
  /\ chatIds[2] = chatIds[1]

\* C21: a step that selects a conversation leaves that conversation's unread counter at 0
\* and the unread counter of every other conversation as it was.
C21_SelectClearsUnread ==
  [][(selectedChat' # selectedChat /\ selectedChat' # Null)
     => unreadCounts' = [unreadCounts EXCEPT ![selectedChat'] = 0]]_vars

\* C21 witness: u3 was selected after messages of both counterparts had arrived; its
\* history request is in flight, its counter is 0 and the counter of u2 is kept
C21_Witness ==
  /\ selectedChat = "u3" /\ ~sound
  /\ \E f \in fetches : f.chat = "u3"
  /\ unreadCounts["u3"] = 0 /\ unreadCounts["u2"] = 1
  /\ lastMessages["u3"] # Null /\ lastMessages["u2"] # Null
  /\ Len(messages) = 2

\* the server holds a message of the local user with this id and text
StoredMine(id, text) == \E m \in db : m.id = id /\ m.userId = Me /\ m.text = text

\* C22: a step that emits sendMessage is the continuation of a createMessage request that
\* succeeded, and it appends the message under the id the request returned; every entry
\* displayed as the local user's carries the id and text of a stored message; when the
\* request fails, the sequence, the previews and the store are unchanged, nothing is
\* emitted and no new request is started.
C22_SendAfterPersist ==
  [][/\ HasSent(sent', "sendMessage") =>
          \E s \in sending :
             /\ s.id # 0 /\ StoredMine(s.id, s.text)
             /\ sending' = sending \ {s}
             /\ messages' = Append(messages, Shown(s.id, s.text, "me"))
             /\ sent' = <<Msg("sendMessage", s.chat, Me, Null, NoDesc)>>
     /\ \A i \in DOMAIN messages' :
          messages'[i].sender = "me" => StoredMine(messages'[i].id, messages'[i].text)
     /\ \A s \in sending :
          (s.id = 0 /\ sending' = sending \ {s}) =>
             /\ messages' = messages /\ lastMessages' = lastMessages
             /\ db' = db /\ sent' = <<>>]_vars

\* C22 witness: the message was stored, then displayed as the only entry and broadcast
C22_Witness ==
  /\ HasSent(sent, "sendMessage")
  /\ sending = {}
  /\ Len(messages) = 1 /\ messages[1].sender = "me" /\ StoredMine(messages[1].id, messages[1].text)
  /\ selectedChat # Null /\ lastMessages[selectedChat] = messages[1].text

\* C23: the message sound is played by a step only if the step handles a receiveMessage
\* event whose message was written by another user (a step outside messaging leaves the
\* record of the last sound as it is); the handling of a message of the local user plays none.
C23_SoundOnlyForOthers ==
  [][/\ sound' => \/ \E m \in db : m.userId # Me /\ OnReceiveMessage(m)
                  \/ sound /\ UNCHANGED msgVars
     /\ \A m \in db : (m.userId = Me /\ OnReceiveMessage(m)) => ~sound']_vars

\* C23 witness: the sound was played for a message of a counterpart while a message of the
\* local user is in the store and displayed
C23_Witness ==
  /\ sound
  /\ \E m \in db : m.userId = Me /\ messageExists(messages, m.id)
  /\ \E m \in db : m.userId # Me /\ messageExists(messages, m.id)

\* the modal is shown as the modal of an outgoing call
OutgoingModal == showCallModal /\ callModalType = "outgoing"

\* C24: a step that emits callUser or opens the outgoing modal is the continuation of a
\* call-record request that succeeded; it emits exactly one callUser, to the conversation
\* that was selected when the call was requested, from the local user, with the requested
\* kind. The request itself changes no call state and emits nothing, and so does its failure.
C24_CallUserAfterRecord ==
  [][/\ (HasSent(sent', "callUser") \/ (OutgoingModal' /\ ~OutgoingModal)) =>
          /\ callReq # NoReq /\ callReq' = NoReq
          /\ sent' = <<Msg("callUser", callReq.to, Me, callReq.type, NoDesc)>>
          /\ OutgoingModal' /\ callType' = callReq.type
     /\ \A t \in CallTypes :
          initiateCall(t) => /\ callReq' = [to |-> selectedChat, type |-> t]
                             /\ sent' = <<>> /\ UNCHANGED callVars
     /\ initiateCallFail => (sent' = <<>> /\ UNCHANGED callVars)]_vars

\* C24 witness: an audio call to the selected conversation was requested, the record was
\* created, the outgoing modal is open and the callUser event has just been emitted
C24_Witness ==
  /\ OutgoingModal /\ ~showCall /\ callType = "audio" /\ callReq = NoReq
  /\ sent = <<Msg("callUser", selectedChat, Me, "audio", NoDesc)>>

\* C25: whatever the sequence of mounts, unmounts and conversation switches, each event of
\* Chat has exactly one handler while Chat is in the tree and none once it left, and each
\* event of the call view has exactly one handler while the view is shown and none otherwise.
C25_OneHandlerPerEvent ==
  /\ \A e \in ChatEvents : listeners[e] = IF chatMounted THEN 1 ELSE 0
  /\ \A e \in VCEvents : listeners[e] = IF vcMounted THEN 1 ELSE 0

\* C25 witness: Chat was unmounted after a call had rung and its call view had been shown
\* and closed; no handler is left on the socket
C25_Witness ==
  /\ ~chatMounted /\ ~vcMounted
  /\ vcInst = 1 /\ nextRun = 1 /\ nextAudio = 1
  /\ \A e \in Events : listeners[e] = 0
  /\ \E r \in Runs : pcs[r].closed

\* C26: in the call view without a peer connection, when the view is removed from the tree,
\* every stream its initializeMedia had obtained is stopped, in an audio call as in a video call.
C26_VariantStopsTracks ==
  [][(vcMounted /\ ~vcMounted') =>
       \A r \in Runs : (gum[r].st = "live" /\ gum[r].inst = vcInst) => gum'[r].st = "stopped"]_vars

\* the events of the call signaling
Signaling == {"answerCall", "rejectCall", "endCall", "offer", "answer", "ice-candidate"}

\* the users the signaling events of a log are addressed to
Addressees(log) == {log[i].to : i \in {k \in DOMAIN log : log[k].type \in Signaling}}

\* C27: the signaling events a step emits are addressed to the other participant of the
\* session: all to one user; to the caller when an incoming prompt is answered or declined;
\* to the callee when the call that has just been placed is cancelled.
C27_SignalingToSessionPeer ==
  [][/\ Cardinality(Addressees(sent')) <= 1
     /\ ((onAccept \/ onDecline) /\ callModalType = "incoming" /\ incomingCallData # Null)
          => Addressees(sent') = {incomingCallData}
     /\ (onDecline /\ HasSent(sent, "callUser") /\ callModalType = "outgoing")
          => Addressees(sent') = {sent[1].to}]_vars

\* C28: the hang-up of a connected call emits exactly one endCall event and removes the
\* call view.
C28_EndCallOnce ==
  [][ClickEndCall =>
       /\ Cardinality({i \in DOMAIN sent' : sent'[i].type = "endCall"}) = 1
       /\ ~vcMounted' /\ ~showCall']_vars

\* s is the history of conversation c as the server held it now or earlier
IsHistoryOf(s, c) == Len(s) <= Len(History(c)) /\ s = SubSeq(History(c), 1, Len(s))

\* C29: when the last pending history request completes, the sequence it displays is the
\* history of the conversation that is selected then, whatever the order of the selections
\* and of the responses.
C29_LateHistoryIgnored ==
  [][\A f \in fetches :
       (fetchMessagesOk(f) /\ fetches' = {} /\ selectedChat # Null)
         => IsHistoryOf(messages', selectedChat)]_vars

\* C30: whenever the call view holds a running local stream, the audio flag equals the
\* enabled state of its audio track and, in a video call, the video flag equals the enabled
\* state of its video track.
C30_MuteFlagsMatchTracks ==
  (vcMounted /\ localStreamRef # 0 /\ gum[localStreamRef].st = "live") =>
     /\ isAudioEnabled = trackEnabled[localStreamRef].audio
     /\ isVideoCall => isVideoEnabled = trackEnabled[localStreamRef].video

====
